---- MODULE Spec2Model ----
(***************************************************************************)
(* A model of composer_parser (src/lib.rs): the call outdated(), which     *)
(* runs `composer outdated`, classifies the run by its exit status and     *)
(* decodes the captured standard output into ComposerOutdatedData, and the *)
(* result model (UpdateRequirement, PackageStatus) it decodes into.        *)
(***************************************************************************)
EXTENDS Integers, Sequences, FiniteSets, TLC

VARIABLES
    pc,              \* position of the call inside outdated()
    options,         \* ComposerOutdatedOptions
    max_level,       \* the tracing subscriber's level filter (environment)
    cmd,             \* std::process::Command: program and arguments
    spawn_calls,     \* every execution of cmd, as handed to the OS
    child,           \* the child process: "none", "running" or "exited"
    output,          \* std::process::Output once captured
    log,             \* diagnostic records emitted through tracing
    update_requirement,
    json_str,
    from_str_calls,  \* how often serde_json::from_str has been entered
    result,          \* what outdated() returned
    mpc,             \* position of the result-model exercise
    statuses,        \* a sequence of UpdateRequirement values
    literal,         \* a latest-status literal as met on the wire
    encoded,
    decoded,
    shown,
    lit_decoded,
    lit_encoded,
    worst

vars == <<pc, options, max_level, cmd, spawn_calls, child, output, log,
          update_requirement, json_str, from_str_calls, result,
          mpc, statuses, literal, encoded, decoded, shown, lit_decoded,
          lit_encoded, worst>>

callVars == <<pc, options, max_level, cmd, spawn_calls, child, output, log,
              update_requirement, json_str, from_str_calls, result>>

modelVars == <<mpc, statuses, literal, encoded, decoded, shown, lit_decoded,
               lit_encoded, worst>>

-----------------------------------------------------------------------------
(* Bounds *)

MaxIgnored == 2
MaxLocked == 2
MaxStatuses == 4

SeqsUpTo(S, n) == UNION {[1..k -> S] : k \in 0..n}

-----------------------------------------------------------------------------
(* Rust values *)

None == <<>>
Some(x) == <<x>>
Ok(v) == [tag |-> "Ok", value |-> v]
Err(e) == [tag |-> "Err", error |-> e]
IsOk(r) == r.tag = "Ok"
IsErr(r) == r.tag = "Err"

Error == {"SerdeJsonError", "Utf8Error", "StdIoError"}

RECURSIVE Join(_)
Join(s) == IF s = <<>> THEN "" ELSE Head(s) \o Join(Tail(s))

-----------------------------------------------------------------------------
(* UpdateRequirement: variants, ordering, wire names, Display *)

\* the variant identifiers, in declaration order
UpdateRequirementVariants ==
    << <<"U","p","T","o","D","a","t","e">>,
       <<"S","e","m","v","e","r","S","a","f","e","U","p","d","a","t","e">>,
       <<"U","p","d","a","t","e","P","o","s","s","i","b","l","e">> >>

UpdateRequirement ==
    {Join(UpdateRequirementVariants[i]) : i \in DOMAIN UpdateRequirementVariants}

VariantIndex(v) ==
    CHOOSE i \in DOMAIN UpdateRequirementVariants :
        Join(UpdateRequirementVariants[i]) = v

\* the order of variants declared UpToDate, UpdatePossible, SemverSafeUpdate
CmpSwapped(a, b) ==
    LET at(v) == CASE v = "UpToDate" -> 1
                   [] v = "UpdatePossible" -> 2
                   [] v = "SemverSafeUpdate" -> 3
    IN  IF at(a) < at(b) THEN "Less"
        ELSE IF at(a) = at(b) THEN "Equal"
        ELSE "Greater"

\* derive(PartialOrd, Ord): variants compare by declaration position
Cmp(a, b) ==
    IF VariantIndex(a) < VariantIndex(b) THEN "Less"
    ELSE IF VariantIndex(a) = VariantIndex(b) THEN "Equal"
    ELSE "Greater"

Lt(a, b) == Cmp(a, b) = "Less"

\* Ord::max as Iterator::max folds it: the later element wins a tie
MaxOf(a, b) == IF Cmp(a, b) = "Greater" THEN a ELSE b

RECURSIVE MaxFrom(_, _)
MaxFrom(acc, s) == IF s = <<>> THEN acc ELSE MaxFrom(MaxOf(acc, Head(s)), Tail(s))

IterMax(s) == IF s = <<>> THEN None ELSE Some(MaxFrom(Head(s), Tail(s)))

UpperToLower ==
    ("U" :> "u") @@ ("T" :> "t") @@ ("D" :> "d") @@ ("S" :> "s") @@ ("P" :> "p")

\* serde(rename_all = "kebab-case"): a '-' before every capital but the
\* first, every capital lowered
RECURSIVE KebabFrom(_, _)
KebabFrom(chars, first) ==
    IF chars = <<>> THEN <<>>
    ELSE LET c == Head(chars)
             up == c \in DOMAIN UpperToLower
             low == IF up THEN UpperToLower[c] ELSE c
         IN  (IF up /\ ~first THEN <<"-", low>> ELSE <<low>>)
                 \o KebabFrom(Tail(chars), FALSE)

\* rename_all = "snake_case" in its place
SnakeCase(chars) ==
    Join([i \in DOMAIN KebabFrom(chars, TRUE) |->
              IF KebabFrom(chars, TRUE)[i] = "-" THEN "_" ELSE KebabFrom(chars, TRUE)[i]])

KebabCase(chars) == Join(KebabFrom(chars, TRUE))

\* derive(Serialize) on the unit variants: the renamed variant as a string
SerializeUpdateRequirement(v) ==
    KebabCase(UpdateRequirementVariants[VariantIndex(v)])

\* impl Display for UpdateRequirement
DisplayUpdateRequirement(v) ==
    CASE v = "UpToDate" -> "up-to-date"
      [] v = "SemverSafeUpdate" -> "semver-safe-update"
      [] v = "UpdatePossible" -> "update-possible"

IndicatedUpdateRequirement == {"UpToDate", "UpdateRequired"}

-----------------------------------------------------------------------------
(* JSON values and captured bytes *)

JStr(s) == [t |-> "string", s |-> s]
JNull == [t |-> "null"]
\* a number, kept as its digits
JNum(n) == [t |-> "number", n |-> n]
JArr(s) == [t |-> "array", a |-> s]
JObj(f) == [t |-> "object", o |-> f]

\* a run of bytes that is text but no JSON value, and a byte that can occur in
\* no UTF-8 text
Text(s) == [t |-> "text", x |-> s]
InvalidByte == [t |-> "invalid-byte"]

\* String::from_utf8_lossy in its place: the bytes that are no text are dropped
from_utf8_lossy(bytes) ==
    Ok(SelectSeq(bytes, LAMBDA b : b.t # "invalid-byte"))

\* std::str::from_utf8
from_utf8(bytes) ==
    IF \E i \in DOMAIN bytes : bytes[i].t = "invalid-byte"
    THEN Err("Utf8Error")
    ELSE Ok(bytes)

-----------------------------------------------------------------------------
(* derive(Deserialize): the decode schema *)

DeserializeString(j) ==
    IF j.t = "string" THEN Ok(j.s) ELSE Err("SerdeJsonError")

\* DeserializeOptionString taking the empty string for no string
DeserializeOptionStringEmptyIsNone(j) ==
    IF j.t = "null" \/ j = [t |-> "string", s |-> ""] THEN Ok(None)
    ELSE IF j.t = "string" THEN Ok(Some(j.s)) ELSE Err("SerdeJsonError")

\* Option<String>: null is None, anything else must be a string
DeserializeOptionString(j) ==
    IF j.t = "null" THEN Ok(None)
    ELSE LET r == DeserializeString(j)
         IN  IF IsOk(r) THEN Ok(Some(r.value)) ELSE r

\* a unit variant is named by its renamed identifier; no other string decodes
DeserializeUpdateRequirement(j) ==
    IF j.t = "string"
       /\ \E v \in UpdateRequirement : SerializeUpdateRequirement(v) = j.s
    THEN Ok(CHOOSE v \in UpdateRequirement : SerializeUpdateRequirement(v) = j.s)
    ELSE Err("SerdeJsonError")

\* what a key the object does not have is decoded from
Missing == [t |-> "missing"]

\* a field that must be present: decoding from a missing key fails
RequiredField(f, key) == IF key \in DOMAIN f THEN f[key] ELSE Missing

\* an Option<String> field: a missing key is None
OptionalField(f, key) ==
    IF key \in DOMAIN f THEN DeserializeOptionString(f[key]) ELSE Ok(None)

\* struct PackageStatus; keys it does not know are skipped
DeserializePackageStatus(j) ==
    IF j.t # "object" THEN Err("SerdeJsonError")
    ELSE LET name == DeserializeString(RequiredField(j.o, "name"))
             version == DeserializeString(RequiredField(j.o, "version"))
             latest == DeserializeString(RequiredField(j.o, "latest"))
             latest_status ==
                 DeserializeUpdateRequirement(RequiredField(j.o, "latest-status"))
             description == DeserializeString(RequiredField(j.o, "description"))
             warning == OptionalField(j.o, "warning")
         IN  IF /\ IsOk(name) /\ IsOk(version) /\ IsOk(latest)
                /\ IsOk(latest_status) /\ IsOk(description) /\ IsOk(warning)
             THEN Ok([name |-> name.value,
                      version |-> version.value,
                      latest |-> latest.value,
                      latest_status |-> latest_status.value,
                      description |-> description.value,
                      warning |-> warning.value])
             ELSE Err("SerdeJsonError")

\* Vec<PackageStatus>: every element in order, the first failure ends it
DeserializeVecPackageStatus(j) ==
    IF j.t # "array" THEN Err("SerdeJsonError")
    ELSE LET rs == [i \in DOMAIN j.a |-> DeserializePackageStatus(j.a[i])]
         IN  IF \A i \in DOMAIN rs : IsOk(rs[i])
             THEN Ok([i \in DOMAIN rs |-> rs[i].value])
             ELSE Err("SerdeJsonError")

\* struct ComposerOutdatedData
DeserializeComposerOutdatedData(j) ==
    IF j.t # "object" THEN Err("SerdeJsonError")
    ELSE LET locked == DeserializeVecPackageStatus(RequiredField(j.o, "locked"))
         IN  IF IsOk(locked) THEN Ok([locked |-> locked.value]) ELSE locked

\* serde_json::from_str: the text must be exactly one JSON value
from_str(text) ==
    IF Len(text) = 1 /\ text[1].t # "text"
    THEN DeserializeComposerOutdatedData(text[1])
    ELSE Err("SerdeJsonError")

-----------------------------------------------------------------------------
(* What the environment can supply *)

PackageNames == {"acme/widget", "acme/gadget"}

IgnoredPackageLists == SeqsUpTo(PackageNames, MaxIgnored)

\* tracing's LevelFilter, from the least to the most verbose one used here
LevelFilters == {"OFF", "WARN", "DEBUG"}

ExitCodes == {0, 1}

Required ==
    [name |-> JStr("acme/gadget"), version |-> JStr("1.0.0"),
     latest |-> JStr("2.0.0"), description |-> JStr("d")]

WithStatus(f, s) == ("latest-status" :> s) @@ f
WithWarning(f, w) == ("warning" :> w) @@ f
Without(f, key) == [k \in (DOMAIN f) \ {key} |-> f[k]]

\* entries that match the schema
GoodEntries ==
    { JObj(WithStatus(Required, JStr("up-to-date"))),
      JObj(WithWarning(WithStatus(Required, JStr("semver-safe-update")), JNull)),
      JObj(WithWarning(WithStatus(Required, JStr("update-possible")), JStr(""))),
      JObj(WithWarning(WithStatus(Required, JStr("update-possible")),
                       JStr("abandoned"))) }

\* entries that do not
BadEntries ==
    { JObj(WithStatus(Required, JStr("not-a-real-status"))),
      JObj(WithWarning(WithStatus(Required, JStr("UpToDate")), JStr("abandoned"))),
      JObj(WithStatus(Required, JNull)),
      JObj(Required),
      JObj(("latest_status" :> JStr("up-to-date")) @@ Required),
      JObj(WithWarning(WithStatus(Required, JStr("up-to-date")), JNum("1"))) }
    \cup { JObj(Without(WithStatus(Required, JStr("up-to-date")), key)) :
               key \in DOMAIN Required }

GoodLists == SeqsUpTo(GoodEntries, MaxLocked)

\* a bad entry ends the list it is in: decoding stops at it
LockedLists ==
    GoodLists
    \cup { Append([i \in 1..k |-> JObj(WithStatus(Required, JStr("up-to-date")))], b) :
               k \in 0..(MaxLocked - 1), b \in BadEntries }

\* standard output: a report, another JSON value, text that is no JSON, nothing,
\* or bytes that are no text at all
Stdouts ==
    { <<JObj([locked |-> JArr(l)])>> : l \in LockedLists }
    \cup { <<JObj([locked |-> JArr(<<>>), installed |-> JArr(<<>>)])>>,
           <<JObj([installed |-> JArr(<<>>)])>>,
           <<JObj([locked |-> JNull])>>,
           <<JArr(<<>>)>>,
           <<Text("Could not find a composer.json")>>,
           <<>>,
           <<InvalidByte>>,
           <<JObj([locked |-> JArr(<<>>)]), InvalidByte>> }

Stderrs == { <<>>, <<Text("deprecation notice")>>, <<InvalidByte>> }

-----------------------------------------------------------------------------
(* outdated() *)

NotYet == [tag |-> "none"]

FixedArgs ==
    <<"outdated", "-f", "json", "--no-plugins", "--strict", "--locked", "-m">>

\* ExitStatus::success
success(status) == status = 0

\* whether an event of this level reaches the subscriber; the arguments of an
\* event that does not are never evaluated
Enabled(level) ==
    \/ level = "WARN" /\ max_level \in {"WARN", "DEBUG"}
    \/ level = "DEBUG" /\ max_level = "DEBUG"

Event(level, what, value) == [level |-> level, what |-> what, value |-> value]

\* `?` on an Err: the call returns it
Return(r) ==
    /\ result' = r
    /\ pc' = "done"

Init ==
    /\ pc = "new"
    /\ options \in [ignored_packages : IgnoredPackageLists]
    /\ max_level \in LevelFilters
    /\ cmd = [program |-> "", args |-> <<>>]
    /\ spawn_calls = <<>>
    /\ child = "none"
    /\ output = NotYet
    /\ log = <<>>
    /\ update_requirement = NotYet
    /\ json_str = NotYet
    /\ from_str_calls = 0
    /\ result = NotYet
    /\ mpc = "off"
    /\ statuses = <<>>
    /\ literal = ""
    /\ encoded = <<>>
    /\ decoded = <<>>
    /\ shown = <<>>
    /\ lit_decoded = NotYet
    /\ lit_encoded = NotYet
    /\ worst = NotYet

\* Command::new("composer") and the fixed arguments
NewCommand ==
    /\ pc = "new"
    /\ cmd' = [program |-> "composer", args |-> FixedArgs]
    /\ pc' = "ignore"
    /\ UNCHANGED <<options, max_level, spawn_calls, child, output, log,
                   update_requirement, json_str, from_str_calls, result>>
    /\ UNCHANGED modelVars

\* how many of the ignored packages the loop has already handled
Handled == (Len(cmd.args) - Len(FixedArgs)) \div 2

\* IgnorePackage putting each new pair in front of the earlier ones
IgnorePackagePrepended ==
    /\ pc = "ignore"
    /\ Handled < Len(options.ignored_packages)
    /\ cmd' = [cmd EXCEPT !.args =
                  FixedArgs \o <<"--ignore", options.ignored_packages[Handled + 1]>>
                      \o SubSeq(@, Len(FixedArgs) + 1, Len(@))]
    /\ UNCHANGED <<pc, options, max_level, spawn_calls, child, output, log,
                   update_requirement, json_str, from_str_calls, result>>
    /\ UNCHANGED modelVars

\* one turn of the loop over options.ignored_packages
IgnorePackage ==
    /\ pc = "ignore"
    /\ Handled < Len(options.ignored_packages)
    /\ cmd' = [cmd EXCEPT !.args =
                  @ \o <<"--ignore", options.ignored_packages[Handled + 1]>>]
    /\ UNCHANGED <<pc, options, max_level, spawn_calls, child, output, log,
                   update_requirement, json_str, from_str_calls, result>>
    /\ UNCHANGED modelVars

\* Spawn trying a second time when the first launch fails
SpawnRetrying ==
    /\ pc = "ignore"
    /\ Handled = Len(options.ignored_packages)
    /\ spawn_calls' = Append(spawn_calls, cmd)
    /\ \/ /\ child' = "running"
          /\ pc' = "wait"
          /\ UNCHANGED result
       \/ /\ child' = "none"
          /\ IF spawn_calls = <<>>
             THEN UNCHANGED <<pc, result>>
             ELSE Return(Err("StdIoError"))
    /\ UNCHANGED <<options, max_level, cmd, output, log,
                   update_requirement, json_str, from_str_calls>>
    /\ UNCHANGED modelVars

\* cmd.output(), first half: the child is started, or cannot be
Spawn ==
    /\ pc = "ignore"
    /\ Handled = Len(options.ignored_packages)
    /\ spawn_calls' = Append(spawn_calls, cmd)
    /\ \/ /\ child' = "running"
          /\ pc' = "wait"
          /\ UNCHANGED result
       \/ /\ child' = "none"
          /\ Return(Err("StdIoError"))
    /\ UNCHANGED <<options, max_level, cmd, output, log,
                   update_requirement, json_str, from_str_calls>>
    /\ UNCHANGED modelVars

\* cmd.output(), second half: the child runs to its end and its streams and
\* exit status are collected
WaitWithOutput ==
    /\ pc = "wait"
    /\ \E code \in ExitCodes, out \in Stdouts, err \in Stderrs :
           output' = [status |-> code, stdout |-> out, stderr |-> err]
    /\ child' = "exited"
    /\ pc' = "warn_status"
    /\ UNCHANGED <<options, max_level, cmd, spawn_calls, log,
                   update_requirement, json_str, from_str_calls, result>>
    /\ UNCHANGED modelVars

\* WarnStatus without the test of the exit status
WarnStatusAlways ==
    /\ pc = "warn_status"
    /\ pc' = "debug_stdout"
    /\ log' = IF Enabled("WARN")
              THEN Append(log, Event("WARN", "status", output.status))
              ELSE log
    /\ UNCHANGED <<options, max_level, cmd, spawn_calls, child, output,
                   update_requirement, json_str, from_str_calls, result>>
    /\ UNCHANGED modelVars

\* if !output.status.success() { warn!(... output.status) ...
WarnStatus ==
    /\ pc = "warn_status"
    /\ IF success(output.status)
       THEN /\ pc' = "classify"
            /\ UNCHANGED log
       ELSE /\ pc' = "debug_stdout"
            /\ log' = IF Enabled("WARN")
                      THEN Append(log, Event("WARN", "status", output.status))
                      ELSE log
    /\ UNCHANGED <<options, max_level, cmd, spawn_calls, child, output,
                   update_requirement, json_str, from_str_calls, result>>
    /\ UNCHANGED modelVars

\* debug!("stdout:\n{}", from_utf8(&output.stdout)?)
DebugStdout ==
    /\ pc = "debug_stdout"
    /\ IF ~Enabled("DEBUG")
       THEN /\ pc' = "warn_stderr"
            /\ UNCHANGED <<log, result>>
       ELSE LET r == from_utf8(output.stdout)
            IN  IF IsErr(r)
                THEN Return(r) /\ UNCHANGED log
                ELSE /\ log' = Append(log, Event("DEBUG", "stdout", r.value))
                     /\ pc' = "warn_stderr"
                     /\ UNCHANGED result
    /\ UNCHANGED <<options, max_level, cmd, spawn_calls, child, output,
                   update_requirement, json_str, from_str_calls>>
    /\ UNCHANGED modelVars

\* if !output.stderr.is_empty() { warn!("stderr:\n{}", from_utf8(&output.stderr)?) }
WarnStderr ==
    /\ pc = "warn_stderr"
    /\ IF output.stderr = <<>> \/ ~Enabled("WARN")
       THEN /\ pc' = "classify"
            /\ UNCHANGED <<log, result>>
       ELSE LET r == from_utf8(output.stderr)
            IN  IF IsErr(r)
                THEN Return(r) /\ UNCHANGED log
                ELSE /\ log' = Append(log, Event("WARN", "stderr", r.value))
                     /\ pc' = "classify"
                     /\ UNCHANGED result
    /\ UNCHANGED <<options, max_level, cmd, spawn_calls, child, output,
                   update_requirement, json_str, from_str_calls>>
    /\ UNCHANGED modelVars

\* Classify with the two outcomes exchanged
ClassifyInverted ==
    /\ pc = "classify"
    /\ update_requirement' =
           IF success(output.status) THEN "UpdateRequired" ELSE "UpToDate"
    /\ pc' = "utf8"
    /\ UNCHANGED <<options, max_level, cmd, spawn_calls, child, output, log,
                   json_str, from_str_calls, result>>
    /\ UNCHANGED modelVars

\* let update_requirement = if output.status.success() { .. } else { .. }
Classify ==
    /\ pc = "classify"
    /\ update_requirement' =
           IF success(output.status) THEN "UpToDate" ELSE "UpdateRequired"
    /\ pc' = "utf8"
    /\ UNCHANGED <<options, max_level, cmd, spawn_calls, child, output, log,
                   json_str, from_str_calls, result>>
    /\ UNCHANGED modelVars

\* let json_str = from_utf8(&output.stdout)?
DecodeUtf8 ==
    /\ pc = "utf8"
    /\ LET r == from_utf8(output.stdout)
       IN  IF IsErr(r)
           THEN Return(r) /\ UNCHANGED json_str
           ELSE /\ json_str' = r.value
                /\ pc' = "json"
                /\ UNCHANGED result
    /\ UNCHANGED <<options, max_level, cmd, spawn_calls, child, output, log,
                   update_requirement, from_str_calls>>
    /\ UNCHANGED modelVars

\* let data = serde_json::from_str(json_str)?; Ok((update_requirement, data))
ParseJson ==
    /\ pc = "json"
    /\ from_str_calls' = from_str_calls + 1
    /\ Return(LET r == from_str(json_str)
              IN  IF IsErr(r) THEN r ELSE Ok(<<update_requirement, r.value>>))
    /\ UNCHANGED <<options, max_level, cmd, spawn_calls, child, output, log,
                   update_requirement, json_str>>
    /\ UNCHANGED modelVars

Next ==
    \/ NewCommand
    \/ IgnorePackage
    \/ Spawn
    \/ WaitWithOutput
    \/ WarnStatus
    \/ DebugStdout
    \/ WarnStderr
    \/ Classify
    \/ DecodeUtf8
    \/ ParseJson

Spec == Init /\ [][Next]_vars

-----------------------------------------------------------------------------
(* The result model on its own: UpdateRequirement values are written to the *)
(* wire and read back, shown, compared, and wire literals are read and      *)
(* written back.                                                            *)

WireLiterals ==
    {"up-to-date", "semver-safe-update", "update-possible",
     "not-a-real-status", "UpToDate", "update_possible"}

InitModel ==
    /\ pc = "off"
    /\ options = [ignored_packages |-> <<>>]
    /\ max_level = "OFF"
    /\ cmd = [program |-> "", args |-> <<>>]
    /\ spawn_calls = <<>>
    /\ child = "none"
    /\ output = NotYet
    /\ log = <<>>
    /\ update_requirement = NotYet
    /\ json_str = NotYet
    /\ from_str_calls = 0
    /\ result = NotYet
    /\ mpc = "serialize"
    /\ statuses \in SeqsUpTo(UpdateRequirement, MaxStatuses) \ {<<>>}
    /\ literal \in WireLiterals
    /\ encoded = <<>>
    /\ decoded = <<>>
    /\ shown = <<>>
    /\ lit_decoded = NotYet
    /\ lit_encoded = NotYet
    /\ worst = NotYet

\* UpdateRequirement::serialize on every status
SerializeStatuses ==
    /\ mpc = "serialize"
    /\ encoded' = [i \in DOMAIN statuses |-> SerializeUpdateRequirement(statuses[i])]
    /\ mpc' = "deserialize"
    /\ UNCHANGED <<statuses, literal, decoded, shown, lit_decoded, lit_encoded, worst>>
    /\ UNCHANGED callVars

\* UpdateRequirement::deserialize on what was written
DeserializeEncoded ==
    /\ mpc = "deserialize"
    /\ decoded' = [i \in DOMAIN encoded |-> DeserializeUpdateRequirement(JStr(encoded[i]))]
    /\ mpc' = "display"
    /\ UNCHANGED <<statuses, literal, encoded, shown, lit_decoded, lit_encoded, worst>>
    /\ UNCHANGED callVars

\* Display::fmt on every status
DisplayStatuses ==
    /\ mpc = "display"
    /\ shown' = [i \in DOMAIN statuses |-> DisplayUpdateRequirement(statuses[i])]
    /\ mpc' = "literal"
    /\ UNCHANGED <<statuses, literal, encoded, decoded, lit_decoded, lit_encoded, worst>>
    /\ UNCHANGED callVars

\* UpdateRequirement::deserialize on a literal from the wire
DeserializeLiteral ==
    /\ mpc = "literal"
    /\ lit_decoded' = DeserializeUpdateRequirement(JStr(literal))
    /\ mpc' = "reserialize"
    /\ UNCHANGED <<statuses, literal, encoded, decoded, shown, lit_encoded, worst>>
    /\ UNCHANGED callVars

\* the decoded literal written back, when it decoded
ReserializeLiteral ==
    /\ mpc = "reserialize"
    /\ lit_encoded' = IF IsOk(lit_decoded)
                      THEN Some(SerializeUpdateRequirement(lit_decoded.value))
                      ELSE None
    /\ mpc' = "max"
    /\ UNCHANGED <<statuses, literal, encoded, decoded, shown, lit_decoded, worst>>
    /\ UNCHANGED callVars

\* statuses.iter().max()
MaxStatus ==
    /\ mpc = "max"
    /\ worst' = IterMax(statuses)
    /\ mpc' = "finished"
    /\ UNCHANGED <<statuses, literal, encoded, decoded, shown, lit_decoded, lit_encoded>>
    /\ UNCHANGED callVars

NextModel ==
    \/ SerializeStatuses
    \/ DeserializeEncoded
    \/ DisplayStatuses
    \/ DeserializeLiteral
    \/ ReserializeLiteral
    \/ MaxStatus

SpecModel == InitModel /\ [][NextModel]_vars

-----------------------------------------------------------------------------
(* Properties *)

\* the wire literals of latest-status and the classification each stands for
AcceptedLiterals == {"up-to-date", "semver-safe-update", "update-possible"}

ClassOfLiteral ==
    ("up-to-date" :> "UpToDate") @@ ("semver-safe-update" :> "SemverSafeUpdate")
        @@ ("update-possible" :> "UpdatePossible")

Captured == child = "exited"
Returned == pc = "done"
ValidText(bytes) == \A i \in DOMAIN bytes : bytes[i] # InvalidByte
Range(s) == {s[i] : i \in DOMAIN s}

\* standard output is one JSON object whose "locked" is an array of objects
IsReport(bytes) ==
    /\ Len(bytes) = 1
    /\ bytes[1].t = "object"
    /\ "locked" \in DOMAIN bytes[1].o
    /\ bytes[1].o.locked.t = "array"
    /\ \A i \in DOMAIN bytes[1].o.locked.a : bytes[1].o.locked.a[i].t = "object"

Entries == output.stdout[1].o.locked.a

HasString(e, key) == key \in DOMAIN e.o /\ e.o[key].t = "string"

\* C1: when the exit status is a failure and standard output is valid text,
\* the diagnostics never end the call: the JSON decoder is entered and no
\* UTF-8 error is returned, whatever standard error holds.
C1_DiagnosticsNeverAbort ==
    (Returned /\ Captured /\ ~success(output.status) /\ ValidText(output.stdout))
        => (from_str_calls = 1 /\ result # Err("Utf8Error"))

\* C2: a call that returns Ok reports UpToDate exactly when the exit status is
\* success and UpdateRequired otherwise, and the report holds the entries of
\* standard output, one for one, whatever their classification.
C2_OutcomeFromExitStatus ==
    (Returned /\ IsOk(result)) =>
        /\ (result.value[1] = "UpToDate") <=> (output.status = 0)
        /\ (result.value[1] = "UpdateRequired") <=> (output.status # 0)
        /\ IsReport(output.stdout)
        /\ Len(result.value[2].locked) = Len(Entries)
        /\ \A i \in DOMAIN Entries :
               /\ result.value[2].locked[i].latest_status
                      = ClassOfLiteral[Entries[i].o["latest-status"].s]
               /\ result.value[2].locked[i].name = Entries[i].o.name.s

\* a success exit whose report holds an entry that is not up to date
C2_Witness ==
    /\ Returned /\ IsOk(result)
    /\ output.status = 0
    /\ result.value[1] = "UpToDate"
    /\ \E i \in DOMAIN result.value[2].locked :
           result.value[2].locked[i].latest_status = "UpdatePossible"

\* C3: the child is started as `composer` with the seven fixed arguments
\* followed by one --ignore pair per ignored package, in input order,
\* duplicates included.
C3_ArgumentList ==
    \A c \in DOMAIN spawn_calls :
        LET args == spawn_calls[c].args
            names == options.ignored_packages
        IN  /\ spawn_calls[c].program = "composer"
            /\ Len(args) = 7 + 2 * Len(names)
            /\ SubSeq(args, 1, 7) =
                   <<"outdated", "-f", "json", "--no-plugins", "--strict",
                     "--locked", "-m">>
            /\ \A i \in DOMAIN names :
                   /\ args[7 + 2 * i - 1] = "--ignore"
                   /\ args[7 + 2 * i] = names[i]

\* started with the same package ignored twice
C3_Witness ==
    /\ Len(spawn_calls) = 1
    /\ Len(options.ignored_packages) = 2
    /\ options.ignored_packages[1] = options.ignored_packages[2]
    /\ Len(spawn_calls[1].args) = 11

\* C4: when the captured standard output is not valid UTF-8 the call returns
\* the UTF-8 error, for any exit status, and the JSON decoder is never entered.
C4_InvalidStdoutIsUtf8Error ==
    (Captured /\ ~ValidText(output.stdout)) =>
        /\ from_str_calls = 0
        /\ Returned => result = Err("Utf8Error")

\* a success exit with a report followed by a byte that is no text
C4_Witness ==
    /\ Returned /\ Captured
    /\ output.status = 0
    /\ Len(output.stdout) = 2
    /\ ~ValidText(output.stdout)
    /\ result = Err("Utf8Error")

\* C5: when an entry's latest-status is a string other than the three accepted
\* literals, the call returns the JSON decode error, for any exit status.
C5_UnknownStatusIsDecodeError ==
    (/\ Returned /\ Captured
     /\ IsReport(output.stdout)
     /\ \E i \in DOMAIN Entries :
            /\ HasString(Entries[i], "latest-status")
            /\ Entries[i].o["latest-status"].s \notin AcceptedLiterals)
        => result = Err("SerdeJsonError")

\* C6: once the JSON decoder has run on a report, a warning key that is missing
\* or null decodes to None and one that holds a string to Some of that string,
\* the empty string included; a missing warning alone never fails the decode,
\* a missing name, version, latest, latest-status or description always does.
EntryDecodes(e) ==
    /\ \A key \in {"name", "version", "latest", "description"} : HasString(e, key)
    /\ HasString(e, "latest-status")
    /\ e.o["latest-status"].s \in AcceptedLiterals
    /\ "warning" \in DOMAIN e.o => e.o.warning.t \in {"null", "string"}

C6_WarningOptional ==
    (Returned /\ from_str_calls = 1 /\ IsReport(output.stdout)) =>
        /\ IsOk(result) =>
               /\ Len(result.value[2].locked) = Len(Entries)
               /\ \A i \in DOMAIN Entries :
                      LET e == Entries[i]
                          w == result.value[2].locked[i].warning
                      IN  /\ "warning" \notin DOMAIN e.o => w = None
                          /\ "warning" \in DOMAIN e.o =>
                                 /\ e.o.warning.t = "null" => w = None
                                 /\ e.o.warning.t = "string" =>
                                        w = Some(e.o.warning.s) /\ w # None
        /\ (\E i \in DOMAIN Entries :
                \E key \in {"name", "version", "latest", "latest-status",
                            "description"} : key \notin DOMAIN Entries[i].o)
               => result = Err("SerdeJsonError")
        /\ (\A i \in DOMAIN Entries : EntryDecodes(Entries[i])) => IsOk(result)

\* a report with an entry without a warning and one whose warning is ""
C6_Witness ==
    /\ Returned /\ IsOk(result)
    /\ Len(result.value[2].locked) = 2
    /\ "warning" \notin DOMAIN Entries[1].o
    /\ result.value[2].locked[1].warning = None
    /\ result.value[2].locked[2].warning = Some("")

\* some step of the call can be taken (ParseJson is guarded by its position
\* alone)
CanStep ==
    \/ pc = "json"
    \/ ENABLED (NewCommand \/ IgnorePackage \/ Spawn \/ WaitWithOutput \/ WarnStatus
                   \/ DebugStdout \/ WarnStderr \/ Classify \/ DecodeUtf8)

\* C7: a call executes the command once and never again, can always take its
\* next step until it returns, and returns one of Ok with a report, the I/O
\* error, the UTF-8 error or the JSON decode error; by then no child is
\* running, and an error carries no report.
C7_OneSpawnOneResult ==
    /\ Len(spawn_calls) <= 1
    /\ child = "running" => Len(spawn_calls) = 1
    /\ ~Returned => (result = NotYet /\ CanStep)
    /\ Returned =>
           /\ Len(spawn_calls) = 1
           /\ child # "running"
           /\ \/ /\ IsOk(result)
                 /\ DOMAIN result = {"tag", "value"}
                 /\ result.value[1] \in IndicatedUpdateRequirement
                 /\ DOMAIN result.value[2] = {"locked"}
              \/ /\ IsErr(result)
                 /\ DOMAIN result = {"tag", "error"}
                 /\ result.error \in Error
           /\ (result = Err("StdIoError")) <=> (child = "none")

\* the call has returned a decode error after the child has exited
C7_Witness ==
    /\ Returned
    /\ child = "exited"
    /\ Len(spawn_calls) = 1
    /\ result = Err("SerdeJsonError")

\* C8: every UpdateRequirement is written as the kebab-case literal that is its
\* Display string and reads back as itself, and each accepted literal, read
\* and written back, is the same literal.
C8_StatusRoundTrip ==
    /\ mpc \notin {"serialize"} =>
           \A i \in DOMAIN statuses :
               /\ encoded[i] \in AcceptedLiterals
               /\ ClassOfLiteral[encoded[i]] = statuses[i]
    /\ mpc \notin {"serialize", "deserialize"} =>
           \A i \in DOMAIN statuses : decoded[i] = Ok(statuses[i])
    /\ mpc \notin {"serialize", "deserialize", "display"} =>
           \A i \in DOMAIN statuses : shown[i] = encoded[i]
    /\ mpc \in {"max", "finished"} /\ literal \in AcceptedLiterals =>
           /\ lit_decoded = Ok(ClassOfLiteral[literal])
           /\ lit_encoded = Some(literal)

\* all three classifications written, read back and shown, and a literal
\* read and written back
C8_Witness ==
    /\ mpc = "finished"
    /\ Range(statuses) = UpdateRequirement
    /\ \A i \in DOMAIN statuses : decoded[i] = Ok(statuses[i])
    /\ literal = "semver-safe-update"
    /\ lit_encoded = Some("semver-safe-update")

\* C9: comparison is a strict total order with
\* UpToDate < SemverSafeUpdate < UpdatePossible, and the maximum of a non-empty
\* sequence of classifications is the worst one in it.
C9_OrderAndWorst ==
    /\ mpc = "max" =>
           /\ Lt("UpToDate", "SemverSafeUpdate")
           /\ Lt("SemverSafeUpdate", "UpdatePossible")
           /\ \A a, b \in UpdateRequirement :
                  /\ Cardinality({x \in {"lt", "eq", "gt"} :
                         \/ x = "lt" /\ Lt(a, b)
                         \/ x = "eq" /\ a = b
                         \/ x = "gt" /\ Lt(b, a)}) = 1
                  /\ Lt(a, b) <=> Cmp(b, a) = "Greater"
                  /\ a = b <=> Cmp(a, b) = "Equal"
           /\ \A a, b, c \in UpdateRequirement : Lt(a, b) /\ Lt(b, c) => Lt(a, c)
    /\ mpc = "finished" =>
           worst = Some(IF "UpdatePossible" \in Range(statuses) THEN "UpdatePossible"
                        ELSE IF "SemverSafeUpdate" \in Range(statuses)
                             THEN "SemverSafeUpdate"
                             ELSE "UpToDate")

\* the maximum of a sequence whose worst entry is neither first nor last
C9_Witness ==
    /\ mpc = "finished"
    /\ Len(statuses) = 3
    /\ statuses[1] = "SemverSafeUpdate"
    /\ statuses[2] = "UpdatePossible"
    /\ statuses[3] = "UpToDate"
    /\ worst = Some("UpdatePossible")

\* C10: after a success exit no diagnostic is ever emitted and what the call
\* returns is decided by standard output alone: the UTF-8 error when it is no
\* text, else the decode error or Ok(UpToDate, report) as the decoder says,
\* whatever standard error holds. A diagnostic implies a failure exit.
C10_SuccessIsQuiet ==
    /\ log # <<>> => (Captured /\ ~success(output.status))
    /\ (Captured /\ success(output.status)) =>
           /\ log = <<>>
           /\ Returned =>
                  result = IF ~ValidText(output.stdout) THEN Err("Utf8Error")
                           ELSE IF IsOk(from_str(output.stdout))
                                THEN Ok(<<"UpToDate", from_str(output.stdout).value>>)
                                ELSE Err("SerdeJsonError")

\* a success exit with standard error that is no text, under a subscriber
\* that takes every level
C10_Witness ==
    /\ Returned /\ IsOk(result)
    /\ output.status = 0
    /\ output.stderr = <<InvalidByte>>
    /\ max_level = "DEBUG"
    /\ log = <<>>

=============================================================================
